---- MODULE Spec2Model ----
(***************************************************************************)
(* tink.jwt JwtValidator (python/tink/jwt/_jwt_validator.py).              *)
(*                                                                         *)
(* The model holds one validator slot, the result of the last constructor  *)
(* call, and one validate() call in progress: its position (pc), its local *)
(* variable now and the claim set it reads.  Time is counted in minutes.   *)
(* An Optional[T] is a sequence: <<>> is Python's None, <<x>> is x.        *)
(***************************************************************************)
EXTENDS Integers, Sequences, FiniteSets

VARIABLES
  validator,     \* the JwtValidator built by the last constructor call, or None
  ctor_args,     \* keyword arguments of the last constructor call, or None
  ctor_result,   \* "none" | "ok" | "ValueError"
  raw_jwt,       \* the RawJwt handed to the validate() call, or None
  pc,            \* position of validate(): idle, exp, nbf, iss, sub, aud, done
  now,           \* validate()'s local variable now, or None
  result,        \* outcome of validate(): None while running, else OK or a reason
  clock,         \* the ambient wall clock (datetime.datetime.now)
  call_clock,    \* what the wall clock read when the call began
  clock_reads,   \* wall clock reads made by the call
  first_result   \* result of the preceding call when it had the same arguments

vars == <<validator, ctor_args, ctor_result, raw_jwt, pc, now, result,
          clock, call_clock, clock_reads, first_result>>

----------------------------------------------------------------------------
(* Optional values *)

None == <<>>

Some(x) == <<x>>

Get(o) == o[1]

\* Python truth value of an Optional[Text]: None and '' are false
TruthyText(o) == o /= None /\ Get(o) /= ""

\* Python truth value of an Optional[timedelta]: None and timedelta(0) are false
TruthyDelta(o) == o /= None /\ Get(o) /= 0

\* Python truth value of an Optional[datetime]: only None is false
TruthyDatetime(o) == o /= None

----------------------------------------------------------------------------
(* Bounds and input domains *)

\* _MAX_CLOCK_SKEW = datetime.timedelta(minutes=10)
MAX_CLOCK_SKEW == 10

\* small clock skews tried around zero, negative ones included
MaxSkew == 1

\* how far the wall clock advances past its first value
MaxTick == 1

\* the earliest wall clock value: leaves room for now - clock_skew >= 0
Epoch == MAX_CLOCK_SKEW + MaxSkew

Clocks == Epoch..(Epoch + MaxTick)

\* instants a claim set can carry
Times == 0..(2 * Epoch + MaxTick)

Strings == {"", "a"}

UTC == "UTC"

OptText == {None} \cup {Some(s) : s \in Strings}

SkewArgs == {None} \cup {Some(d) : d \in (-MaxSkew..MaxSkew) \cup
                                        {MAX_CLOCK_SKEW, MAX_CLOCK_SKEW + 1}}

\* a datetime is its instant and its tzinfo
Datetimes(T) == [time : T, tzinfo : {None, Some(UTC)}]

FixedNowArgs == {None} \cup {Some(d) : d \in Datetimes({Epoch})}

Audiences == {Some(A) : A \in (SUBSET Strings) \ {{}}}

OK == "ok"

----------------------------------------------------------------------------
(* RawJwt accessors *)

has_issuer(j) == j.issuer /= None

issuer(j) == Get(j.issuer)

has_subject(j) == j.subject /= None

subject(j) == Get(j.subject)

has_audiences(j) == j.audiences /= None

audiences(j) == Get(j.audiences)

has_expiration(j) == j.expiration /= None

expiration(j) == Get(j.expiration)

has_not_before(j) == j.not_before /= None

not_before(j) == Get(j.not_before)

----------------------------------------------------------------------------
(* JwtValidator accessors *)

has_expected_issuer(v) == v.expected_issuer /= None

expected_issuer(v) == Get(v.expected_issuer)

has_expected_subject(v) == v.expected_subject /= None

expected_subject(v) == Get(v.expected_subject)

has_expected_audience(v) == v.expected_audience /= None

expected_audience(v) == Get(v.expected_audience)

ignore_issuer(v) == v.ignore_issuer

ignore_subject(v) == v.ignore_subject

ignore_audiences(v) == v.ignore_audiences

clock_skew(v) == v.clock_skew

has_fixed_now(v) == v.fixed_now /= None

fixed_now(v) == Get(v.fixed_now).time

----------------------------------------------------------------------------
(* JwtValidator.__init__ *)

IssuerConflict(a) == TruthyText(a.expected_issuer) /\ a.ignore_issuer

SubjectConflict(a) == TruthyText(a.expected_subject) /\ a.ignore_subject

AudienceConflict(a) == TruthyText(a.expected_audience) /\ a.ignore_audiences

\* faulty variant: the bound of 10 minutes is itself refused
SkewTooLarge_inclusive(a) ==
  TruthyDelta(a.clock_skew) /\ Get(a.clock_skew) >= MAX_CLOCK_SKEW

SkewTooLarge(a) == TruthyDelta(a.clock_skew) /\ Get(a.clock_skew) > MAX_CLOCK_SKEW

FixedNowNaive(a) == TruthyDatetime(a.fixed_now) /\ Get(a.fixed_now).tzinfo = None

CtorRaises(a) ==
  \/ IssuerConflict(a)
  \/ SubjectConflict(a)
  \/ AudienceConflict(a)
  \/ SkewTooLarge(a)
  \/ FixedNowNaive(a)

StoredSkew(a) == IF TruthyDelta(a.clock_skew) THEN Get(a.clock_skew) ELSE 0

NewValidator(a) ==
  [expected_issuer   |-> a.expected_issuer,
   expected_subject  |-> a.expected_subject,
   expected_audience |-> a.expected_audience,
   ignore_issuer     |-> a.ignore_issuer,
   ignore_subject    |-> a.ignore_subject,
   ignore_audiences  |-> a.ignore_audiences,
   clock_skew        |-> StoredSkew(a),
   fixed_now         |-> a.fixed_now]

\* __init__ runs once, when the object is made; a call that raises leaves no
\* object behind
JwtValidator(a) ==
  /\ ctor_args' = Some(a)
  /\ IF CtorRaises(a)
       THEN ctor_result' = "ValueError" /\ validator' = None
       ELSE ctor_result' = "ok" /\ validator' = Some(NewValidator(a))
  /\ pc' = "idle"
  /\ raw_jwt' = None
  /\ now' = None
  /\ result' = None
  /\ call_clock' = None
  /\ clock_reads' = 0
  /\ first_result' = None
  /\ UNCHANGED clock

Construct(Args) ==
  /\ ctor_result = "none"
  /\ \E a \in Args : JwtValidator(a)

----------------------------------------------------------------------------
(* validate *)

\* lines 123-126: fixed_now when the validator has one, else the wall clock
ResolveNow(v, c) == IF has_fixed_now(v) THEN fixed_now(v) ELSE c

ClockReads(v) == IF has_fixed_now(v) THEN 0 ELSE 1

\* faulty variant: a token is still good at the instant now - clock_skew
expiration_check_strict(v, j, n) ==
  IF has_expiration(j) /\ expiration(j) < n - clock_skew(v)
    THEN "expired"
    ELSE OK

expiration_check(v, j, n) ==
  IF has_expiration(j) /\ expiration(j) <= n - clock_skew(v)
    THEN "expired"
    ELSE OK

\* faulty variant: a token is not yet good at the instant now + clock_skew
not_before_check_inclusive(v, j, n) ==
  IF has_not_before(j) /\ not_before(j) >= n + clock_skew(v)
    THEN "not_before"
    ELSE OK

not_before_check(v, j, n) ==
  IF has_not_before(j) /\ not_before(j) > n + clock_skew(v)
    THEN "not_before"
    ELSE OK

\* faulty variant: an empty expected issuer counts as none, as in the constructor
issuer_check_truthy(v, j) ==
  IF TruthyText(v.expected_issuer)
    THEN IF ~has_issuer(j) THEN "missing_issuer"
         ELSE IF expected_issuer(v) /= issuer(j) THEN "issuer_mismatch"
         ELSE OK
    ELSE IF has_issuer(j) /\ ~ignore_issuer(v) THEN "unexpected_issuer"
         ELSE OK

issuer_check(v, j) ==
  IF has_expected_issuer(v)
    THEN IF ~has_issuer(j) THEN "missing_issuer"
         ELSE IF expected_issuer(v) /= issuer(j) THEN "issuer_mismatch"
         ELSE OK
    ELSE IF has_issuer(j) /\ ~ignore_issuer(v) THEN "unexpected_issuer"
         ELSE OK

\* faulty variant: the subject branch reads the issuer's ignore flag
subject_check_wrong_flag(v, j) ==
  IF has_expected_subject(v)
    THEN IF ~has_subject(j) THEN "missing_subject"
         ELSE IF expected_subject(v) /= subject(j) THEN "subject_mismatch"
         ELSE OK
    ELSE IF has_subject(j) /\ ~ignore_issuer(v) THEN "unexpected_subject"
         ELSE OK

subject_check(v, j) ==
  IF has_expected_subject(v)
    THEN IF ~has_subject(j) THEN "missing_subject"
         ELSE IF expected_subject(v) /= subject(j) THEN "subject_mismatch"
         ELSE OK
    ELSE IF has_subject(j) /\ ~ignore_subject(v) THEN "unexpected_subject"
         ELSE OK

\* faulty variant: the audiences must be the expected audience and nothing else
audience_check_only(v, j) ==
  IF has_expected_audience(v)
    THEN IF ~has_audiences(j) \/ audiences(j) /= {expected_audience(v)}
           THEN "missing_audience"
           ELSE OK
    ELSE IF has_audiences(j) /\ ~ignore_audiences(v) THEN "unexpected_audience"
         ELSE OK

audience_check(v, j) ==
  IF has_expected_audience(v)
    THEN IF ~has_audiences(j) \/ expected_audience(v) \notin audiences(j)
           THEN "missing_audience"
           ELSE OK
    ELSE IF has_audiences(j) /\ ~ignore_audiences(v) THEN "unexpected_audience"
         ELSE OK

\* the whole of validate() for a given reading of now
validate(v, j, n) ==
  IF expiration_check(v, j, n) /= OK THEN expiration_check(v, j, n)
  ELSE IF not_before_check(v, j, n) /= OK THEN not_before_check(v, j, n)
  ELSE IF issuer_check(v, j) /= OK THEN issuer_check(v, j)
  ELSE IF subject_check(v, j) /= OK THEN subject_check(v, j)
  ELSE audience_check(v, j)

\* faulty variant: a failing check is noted and the later checks still run, the last
\* failure being the one reported
Proceed_collect(r, next) ==
  /\ pc' = next
  /\ result' = (IF next /= "done" THEN (IF r /= OK THEN Some(r) ELSE result)
                ELSE IF r /= OK THEN Some(r)
                ELSE IF result /= None THEN result ELSE Some(OK))
  /\ UNCHANGED <<validator, ctor_args, ctor_result, raw_jwt, now,
                 clock, call_clock, clock_reads, first_result>>

\* a check raises JwtInvalidError(r) and ends the call, or falls through
Proceed(r, next) ==
  /\ IF r /= OK
       THEN pc' = "done" /\ result' = Some(r)
       ELSE pc' = next /\ result' = (IF next = "done" THEN Some(OK) ELSE None)
  /\ UNCHANGED <<validator, ctor_args, ctor_result, raw_jwt, now,
                 clock, call_clock, clock_reads, first_result>>

\* validate(validator, j) is entered and resolves now
Enter(j) ==
  /\ raw_jwt' = Some(j)
  /\ now' = Some(ResolveNow(Get(validator), clock))
  /\ clock_reads' = ClockReads(Get(validator))
  /\ call_clock' = Some(clock)
  /\ result' = None
  /\ pc' = "exp"
  /\ UNCHANGED <<validator, ctor_args, ctor_result, clock>>

\* a call with a claim set
ValidateBegin(Jwts) ==
  /\ pc = "idle"
  /\ validator /= None
  /\ first_result' = None
  /\ \E j \in Jwts : Enter(j)

\* a second call with the same validator and the same claim set
ValidateAgain ==
  /\ pc = "done"
  /\ first_result = None
  /\ first_result' = result
  /\ Enter(Get(raw_jwt))

\* the caller drops the call's outcome
Return ==
  /\ pc = "done"
  /\ pc' = "idle"
  /\ raw_jwt' = None
  /\ now' = None
  /\ result' = None
  /\ call_clock' = None
  /\ clock_reads' = 0
  /\ first_result' = None
  /\ UNCHANGED <<validator, ctor_args, ctor_result, clock>>

CheckExpiration ==
  /\ pc = "exp"
  /\ Proceed(expiration_check(Get(validator), Get(raw_jwt), Get(now)), "nbf")

\* faulty variant: the not-before check reads the wall clock again
CheckNotBefore_reread ==
  /\ pc = "nbf"
  /\ Proceed(not_before_check(Get(validator), Get(raw_jwt), clock), "iss")

CheckNotBefore ==
  /\ pc = "nbf"
  /\ Proceed(not_before_check(Get(validator), Get(raw_jwt), Get(now)), "iss")

CheckIssuer ==
  /\ pc = "iss"
  /\ Proceed(issuer_check(Get(validator), Get(raw_jwt)), "sub")

CheckSubject ==
  /\ pc = "sub"
  /\ Proceed(subject_check(Get(validator), Get(raw_jwt)), "aud")

CheckAudience ==
  /\ pc = "aud"
  /\ Proceed(audience_check(Get(validator), Get(raw_jwt)), "done")

\* the wall clock advances, also while a call is running
Tick ==
  /\ clock < Epoch + MaxTick
  /\ clock' = clock + 1
  /\ UNCHANGED <<validator, ctor_args, ctor_result, raw_jwt, pc, now, result,
                 call_clock, clock_reads, first_result>>

Checks ==
  \/ CheckExpiration
  \/ CheckNotBefore
  \/ CheckIssuer
  \/ CheckSubject
  \/ CheckAudience

----------------------------------------------------------------------------
(* Inputs of the three specifications *)

ValidatorArgs(I, S, A, II, IS, IA, C, F) ==
  [expected_issuer : I, expected_subject : S, expected_audience : A,
   ignore_issuer : II, ignore_subject : IS, ignore_audiences : IA,
   clock_skew : C, fixed_now : F]

\* every combination of constructor arguments
CtorArgs ==
  ValidatorArgs(OptText, OptText, OptText, BOOLEAN, BOOLEAN, BOOLEAN,
                SkewArgs, FixedNowArgs)

\* every identity policy, wall clock time, no skew
IdentArgs ==
  ValidatorArgs(OptText, OptText, OptText, BOOLEAN, BOOLEAN, BOOLEAN,
                {None}, {None})

\* every clock skew and fixed_now, no identity expected
TimeArgs ==
  ValidatorArgs({None}, {None}, {None}, {FALSE}, {FALSE}, {FALSE},
                SkewArgs, FixedNowArgs)

RawJwts(I, S, A, E, N) ==
  [issuer : I, subject : S, audiences : A, expiration : E, not_before : N]

\* an instant after every now + clock_skew
FarAhead == 2 * Epoch + MaxTick + 1

\* every identity claim; each time claim absent, at instant 0 (before every
\* now - clock_skew) or far ahead
IdentJwts ==
  RawJwts(OptText, OptText, {None} \cup Audiences,
          {None, Some(0), Some(FarAhead)},
          {None, Some(0), Some(FarAhead)})

\* every expiration and not-before, issuer "a" or none
TimeJwts ==
  RawJwts({None, Some("a")}, {None}, {None},
          {None} \cup {Some(t) : t \in Times},
          {None} \cup {Some(t) : t \in Times})

----------------------------------------------------------------------------
Init ==
  /\ validator = None
  /\ ctor_args = None
  /\ ctor_result = "none"
  /\ raw_jwt = None
  /\ pc = "idle"
  /\ now = None
  /\ result = None
  /\ clock \in Clocks
  /\ call_clock = None
  /\ clock_reads = 0
  /\ first_result = None

----------------------------------------------------------------------------
(* Specifications *)

\* identity checks: every policy against every identity claim
Next ==
  \/ Construct(IdentArgs)
  \/ ValidateBegin(IdentJwts)
  \/ Checks
  \/ ValidateAgain
  \/ Return

Spec == Init /\ [][Next]_vars

\* time checks: every skew, fixed or wall clock now, a clock that advances
NextTime ==
  \/ Construct(TimeArgs)
  \/ ValidateBegin(TimeJwts)
  \/ Checks
  \/ ValidateAgain
  \/ Return
  \/ Tick

SpecTime == Init /\ [][NextTime]_vars

\* construction alone, over every combination of arguments
NextCtor == Construct(CtorArgs)

SpecCtor == Init /\ [][NextCtor]_vars

----------------------------------------------------------------------------
(* The rules of validate, stated on the fields of the validator and of the *)
(* claim set, for the properties below                                     *)

V == Get(validator)

J == Get(raw_jwt)

Done == pc = "done"

TimeReasons == {Some("expired"), Some("not_before")}

IssuerReasons ==
  {Some("missing_issuer"), Some("issuer_mismatch"), Some("unexpected_issuer")}

SubjectReasons ==
  {Some("missing_subject"), Some("subject_mismatch"), Some("unexpected_subject")}

AudienceReasons == {Some("missing_audience"), Some("unexpected_audience")}

\* the now the call has to use: fixed_now, else the wall clock as the call began
DueNow == IF V.fixed_now /= None THEN Get(V.fixed_now).time ELSE Get(call_clock)

Expired == J.expiration /= None /\ Get(J.expiration) <= DueNow - V.clock_skew

NotYetValid == J.not_before /= None /\ Get(J.not_before) > DueNow + V.clock_skew

IssuerBad ==
  IF V.expected_issuer /= None
    THEN J.issuer /= V.expected_issuer
    ELSE J.issuer /= None /\ ~V.ignore_issuer

SubjectBad ==
  IF V.expected_subject /= None
    THEN J.subject /= V.expected_subject
    ELSE J.subject /= None /\ ~V.ignore_subject

AudienceBad ==
  IF V.expected_audience /= None
    THEN J.audiences = None
         \/ \A x \in Get(J.audiences) : x /= Get(V.expected_audience)
    ELSE J.audiences /= None /\ ~V.ignore_audiences

----------------------------------------------------------------------------
(* Construction *)

Args == Get(ctor_args)

Constructed == ctor_result = "ok"

\* an expectation given together with its ignore flag
ArgsConflict ==
  \/ Args.expected_issuer /= None /\ Args.ignore_issuer
  \/ Args.expected_subject /= None /\ Args.ignore_subject
  \/ Args.expected_audience /= None /\ Args.ignore_audiences

\* C1: a constructor call with expected_X given (not None, the empty string
\* included) and ignore_X true raises, so that every constructed validator
\* has has_expected_X() => not ignore_X() for issuer, subject and audience.
C1_MutualExclusion ==
  ctor_args /= None =>
    /\ ArgsConflict => ctor_result = "ValueError"
    /\ Constructed =>
         /\ has_expected_issuer(V) => ~ignore_issuer(V)
         /\ has_expected_subject(V) => ~ignore_subject(V)
         /\ has_expected_audience(V) => ~ignore_audiences(V)

\* C2: without an expectation/ignore conflict, the constructor raises exactly
\* when clock_skew is above 10 minutes or fixed_now has no tzinfo; on success
\* clock_skew() is the given skew (zero when none was given), at most 10
\* minutes, and fixed_now()/has_fixed_now() reflect the given fixed_now.
C2_ConstructionIff ==
  (ctor_args /= None /\ ~ArgsConflict) =>
    /\ ctor_result = "ValueError" <=>
         \/ Args.clock_skew /= None /\ Get(Args.clock_skew) > MAX_CLOCK_SKEW
         \/ Args.fixed_now /= None /\ Get(Args.fixed_now).tzinfo = None
    /\ ctor_result \in {"ok", "ValueError"}
    /\ Constructed =>
         /\ clock_skew(V) =
              (IF Args.clock_skew = None THEN 0 ELSE Get(Args.clock_skew))
         /\ clock_skew(V) <= MAX_CLOCK_SKEW
         /\ has_fixed_now(V) <=> Args.fixed_now /= None
         /\ has_fixed_now(V) => fixed_now(V) = Get(Args.fixed_now).time
         /\ V.fixed_now = Args.fixed_now

\* C2 witness: a skew of exactly 10 minutes with an aware fixed_now is accepted
C2_Witness ==
  /\ Constructed
  /\ Args.clock_skew = Some(MAX_CLOCK_SKEW)
  /\ Args.fixed_now /= None
  /\ clock_skew(V) = MAX_CLOCK_SKEW

----------------------------------------------------------------------------
(* validate *)

\* C3: a finished call has exactly one outcome, success or the reason of the
\* first violated rule in the order expiration, not-before, issuer, subject,
\* audience; a running call has none.  An expired or not yet valid token is
\* rejected for that reason whatever its identity claims and the policy.
C3_FirstViolatedRule ==
  /\ ~Done => result = None
  /\ Done =>
       /\ result /= None
       /\ Expired => result = Some("expired")
       /\ (~Expired /\ NotYetValid) => result = Some("not_before")
       /\ (~Expired /\ ~NotYetValid /\ IssuerBad) => result \in IssuerReasons
       /\ (~Expired /\ ~NotYetValid /\ ~IssuerBad /\ SubjectBad)
            => result \in SubjectReasons
       /\ (~Expired /\ ~NotYetValid /\ ~IssuerBad /\ ~SubjectBad /\ AudienceBad)
            => result \in AudienceReasons
       /\ (~Expired /\ ~NotYetValid /\ ~IssuerBad /\ ~SubjectBad /\ ~AudienceBad)
            => result = Some(OK)

\* C3 witness: an expired token that also breaks the issuer, subject and
\* audience rules was rejected as expired
C3_Witness ==
  /\ Done
  /\ Expired /\ NotYetValid /\ IssuerBad /\ SubjectBad /\ AudienceBad
  /\ result = Some("expired")

\* C4: a call fails with the expired reason exactly when the claim set has an
\* expiration exp and exp <= now - clock_skew, now being fixed_now when set.
C4_ExpirationBoundary ==
  Done =>
    (result = Some("expired") <=>
       /\ J.expiration /= None
       /\ Get(J.expiration) <= DueNow - V.clock_skew)

\* C4 witness: with fixed_now and a positive skew, exp = now - clock_skew was
\* rejected as expired
C4_Witness ==
  /\ Done
  /\ V.fixed_now /= None
  /\ V.clock_skew > 0
  /\ J.expiration = Some(DueNow - V.clock_skew)
  /\ result = Some("expired")

\* C4, the other side of the boundary: exp one minute later was not
C4_WitnessAfter ==
  /\ Done
  /\ V.fixed_now /= None
  /\ V.clock_skew > 0
  /\ J.expiration = Some(DueNow - V.clock_skew + 1)
  /\ result = Some(OK)

\* C5: a call whose claim set passes the expiration check fails with the
\* not-before reason exactly when the claim set has a not-before nbf and
\* nbf > now + clock_skew.
C5_NotBeforeBoundary ==
  (Done /\ ~Expired) =>
    (result = Some("not_before") <=>
       /\ J.not_before /= None
       /\ Get(J.not_before) > DueNow + V.clock_skew)

\* C5 witness: with a positive skew, nbf = now + clock_skew was accepted
C5_Witness ==
  /\ Done
  /\ V.clock_skew > 0
  /\ J.not_before = Some(DueNow + V.clock_skew)
  /\ result = Some(OK)

\* C5, the other side of the boundary: nbf one minute later was rejected
C5_WitnessAfter ==
  /\ Done
  /\ V.clock_skew > 0
  /\ J.not_before = Some(DueNow + V.clock_skew + 1)
  /\ result = Some("not_before")

\* C6: past the time checks, a validator with an expected issuer passes the
\* issuer check exactly for a claim set whose issuer equals it; no issuer
\* fails as missing, another issuer as a mismatch.  The same for the subject,
\* past the issuer check.
C6_ExactMatch ==
  (Done /\ ~Expired /\ ~NotYetValid) =>
    /\ V.expected_issuer /= None =>
         /\ J.issuer = None => result = Some("missing_issuer")
         /\ (J.issuer /= None /\ Get(J.issuer) /= Get(V.expected_issuer))
              => result = Some("issuer_mismatch")
         /\ (J.issuer /= None /\ Get(J.issuer) = Get(V.expected_issuer))
              => result \notin IssuerReasons
    /\ (V.expected_subject /= None /\ ~IssuerBad) =>
         /\ J.subject = None => result = Some("missing_subject")
         /\ (J.subject /= None /\ Get(J.subject) /= Get(V.expected_subject))
              => result = Some("subject_mismatch")
         /\ (J.subject /= None /\ Get(J.subject) = Get(V.expected_subject))
              => result \notin SubjectReasons

\* C6 witness: expected issuer "a" and expected subject "a"; the issuer
\* matched and the subject "" did not
C6_Witness ==
  /\ Done
  /\ V.expected_issuer = Some("a") /\ J.issuer = Some("a")
  /\ V.expected_subject = Some("a") /\ J.subject = Some("")
  /\ result = Some("subject_mismatch")

C8_AudienceMembership ==
  ( /\ Done /\ V.expected_audience /= None
    /\ ~Expired /\ ~NotYetValid /\ ~IssuerBad /\ ~SubjectBad ) =>
    /\ result = Some(OK) <=>
         /\ J.audiences /= None
         /\ Get(V.expected_audience) \in Get(J.audiences)
    /\ result /= Some(OK) => result = Some("missing_audience")

\* C8 witness: expected audience "a" among the audiences "" and "a": accepted
C8_Witness ==
  /\ Done
  /\ V.expected_audience = Some("a")
  /\ J.audiences = Some({"", "a"})
  /\ result = Some(OK)

\* C8, no prefix matching: expected audience "" and the audiences {"a"}
C8_WitnessPrefix ==
  /\ Done
  /\ V.expected_audience = Some("")
  /\ J.audiences = Some({"a"})
  /\ result = Some("missing_audience")

\* what the call made of now: it is fixed_now when the validator has one, and
\* then the wall clock is not read; else it is the one reading of the wall
\* clock made as the call began.  Both time checks went by that value, and
\* with fixed_now a second call with the same claim set ends as the first.
SingleNow ==
  /\ pc /= "idle" =>
       /\ now = Some(DueNow)
       /\ clock_reads = (IF V.fixed_now /= None THEN 0 ELSE 1)
  /\ Done =>
       /\ result = Some("expired") <=> Expired
       /\ ~Expired => (result = Some("not_before") <=> NotYetValid)
       /\ (V.fixed_now /= None /\ first_result /= None) => result = first_result

\* C9: with fixed_now the call uses it as now, its result does not depend on
\* the wall clock and two calls with the same claim set end alike; without
\* it the wall clock is read once per call and both time checks use that
\* reading though the clock advances meanwhile; no call changes the validator.
C9_SingleNow ==
  /\ []SingleNow
  /\ [][validator /= None => validator' = validator]_vars

\* C9 witness: without fixed_now, a token was rejected as not yet valid by the
\* reading made as the call began, though the wall clock has since reached
\* nbf - clock_skew
C9_Witness ==
  /\ Done
  /\ V.fixed_now = None
  /\ clock > Get(call_clock)
  /\ J.not_before = Some(clock + V.clock_skew)
  /\ result = Some("not_before")

\* C9, two calls: with fixed_now a second call ended as the first did, the
\* wall clock having advanced past the instant the second call began
C9_WitnessTwice ==
  /\ Done
  /\ V.fixed_now /= None
  /\ first_result = Some("expired")
  /\ result = Some("expired")
  /\ clock > Get(call_clock)

\* C10: whatever clock skew the constructor accepted, a claim set that the
\* same policy with zero skew accepts is accepted; a token with exp > now and
\* nbf <= now is never rejected by a time check.
C10_SkewOnlyWidens ==
  Done =>
    /\ validate([V EXCEPT !.clock_skew = 0], J, DueNow) = OK
         => result = Some(OK)
    /\ ( /\ J.expiration = None \/ Get(J.expiration) > DueNow
         /\ J.not_before = None \/ Get(J.not_before) <= DueNow )
         => result \notin TimeReasons

====
